---- MODULE Spec2Model ----
(***************************************************************************)
(* Model of parse-dnsmasq-lease (CLI) and parse-dnsmasq-lease-webui        *)
(* (service), both in src/parse-dnsmasq-lease.go.                          *)
(*                                                                         *)
(* A Go string is a sequence of one-character strings, so that             *)
(* strings.Fields and strconv.ParseInt are computed character by           *)
(* character.  A lease file is a sequence of lines; a line is a record     *)
(* [text, pad]: its characters, followed by pad further non-blank          *)
(* characters that are not written out (pad is 0 or large enough to        *)
(* overflow the scanner's token buffer).                                   *)
(***************************************************************************)
EXTENDS Integers, Sequences, FiniteSets, TLC

VARIABLES
    mode,           \* which program runs: "cli" or "web"
    env,            \* value of the environment variable DNSMASQ_LEASES ("" = unset)
    file,           \* lines of the lease file on disk
    pc,             \* position of the program
    leaseFilePath,  \* cli: local leaseFilePath; web: parseLeases' filePath argument
    opens,          \* os.Open calls made by the current run / request
    pos,            \* lines the scanner has delivered so far
    lineNumber,     \* cli: lineNumber counter
    leases,         \* the slice of parsed records
    origin,         \* history: origin[i] is the line index leases[i] was built from
    skipped,        \* history: lines skipped by the current parse
    err,            \* "nil", "open" (os.Open failed), "io" (read error), "toolong" (bufio.ErrTooLong)
    logs,           \* log lines written by the current run / request
    stdout,         \* cli: what was written to standard output
    exitCode,       \* cli / web main: -1 while running, else the exit status
    request,        \* web: the request being (or last) served
    resp,           \* web: the response to that request
    nreq,           \* web: requests answered so far
    now             \* web: the wall clock, one tick per request

vars == <<mode, env, file, pc, leaseFilePath, opens, pos, lineNumber, leases, origin,
          skipped, err, logs, stdout, exitCode, request, resp, nreq, now>>

-----------------------------------------------------------------------------
(* Bounds of the model *)

MaxLines == 2
MaxRequests == 2

-----------------------------------------------------------------------------
(* Program constants *)

defaultLeaseFilePath == "/var/lib/misc/dnsmasq.leases"
envVarLeasePath == "DNSMASQ_LEASES"
leasesFilePath == "/var/lib/misc/dnsmasq.leases"
port == "8090"

\* bufio.MaxScanTokenSize, the token buffer of the bufio.NewScanner default
MaxScanTokenSize == 65536

\* an override path that differs from the default
OverridePath == "/tmp/override.leases"
EnvValues == {"", OverridePath}

NA == <<"N", "/", "A">>
Star == <<"*">>

CliLayout == "2006-01-02 15:04:05"
WebLayout == "2006-01-02 15:04:05 MST"

-----------------------------------------------------------------------------
(* strings.Fields: split around runs of white space, no empty fields *)

WhiteSpace == {" ", "\t", "\r", "\n"}

RECURSIVE FieldsAcc(_, _, _)
FieldsAcc(s, cur, acc) ==
    IF s = <<>>
    THEN IF cur = <<>> THEN acc ELSE Append(acc, cur)
    ELSE IF Head(s) \in WhiteSpace
         THEN FieldsAcc(Tail(s), <<>>, IF cur = <<>> THEN acc ELSE Append(acc, cur))
         ELSE FieldsAcc(Tail(s), Append(cur, Head(s)), acc)

Fields(s) == FieldsAcc(s, <<>>, <<>>)

-----------------------------------------------------------------------------
(* strconv.ParseInt(s, 10, 64) *)

Digits == <<"0", "1", "2", "3", "4", "5", "6", "7", "8", "9">>
IsDigit(c) == \E k \in 1..10 : Digits[k] = c
DigitVal(c) == (CHOOSE k \in 1..10 : Digits[k] = c) - 1

\* 2^63 - 1 and 2^63 in decimal
MaxInt64Digits == <<"9","2","2","3","3","7","2","0","3","6","8","5","4","7","7","5","8","0","7">>
MinInt64Digits == <<"9","2","2","3","3","7","2","0","3","6","8","5","4","7","7","5","8","0","8">>

RECURSIVE StripZeros(_)
StripZeros(d) == IF Len(d) > 1 /\ Head(d) = "0" THEN StripZeros(Tail(d)) ELSE d

\* a <= b for digit strings without leading zeros
RECURSIVE DigitsLE(_, _)
DigitsLE(a, b) ==
    IF Len(a) # Len(b) THEN Len(a) < Len(b)
    ELSE IF a = <<>> THEN TRUE
    ELSE IF Head(a) # Head(b) THEN DigitVal(Head(a)) < DigitVal(Head(b))
    ELSE DigitsLE(Tail(a), Tail(b))

RECURSIVE DecimalValue(_, _)
DecimalValue(d, n) ==
    IF d = <<>> THEN n ELSE DecimalValue(Tail(d), n * 10 + DigitVal(Head(d)))

\* [err |-> "nil" | "syntax" | "range", val |-> the number when err = "nil"].
\* The range check compares digit strings, so it is exact for 64 bits; the
\* timestamps that pass it in this model are below 2^31.
ParseInt(s) ==
    LET neg  == s # <<>> /\ Head(s) = "-"
        body == IF s # <<>> /\ Head(s) \in {"+", "-"} THEN Tail(s) ELSE s
    IN  IF body = <<>> \/ \E k \in 1..Len(body) : ~IsDigit(body[k])
        THEN [err |-> "syntax", val |-> 0]
        ELSE IF ~DigitsLE(StripZeros(body), IF neg THEN MinInt64Digits ELSE MaxInt64Digits)
        THEN [err |-> "range", val |-> 0]
        ELSE [err |-> "nil",
              val |-> IF neg THEN 0 - DecimalValue(body, 0) ELSE DecimalValue(body, 0)]

\* time.Unix(sec, 0)
UnixTime(sec) == [sec |-> sec, nsec |-> 0]

\* t.Format(layout): the rendering of t in local time under the layout
FormatTime(t, layout) == [layout |-> layout, time |-> t]

-----------------------------------------------------------------------------
(* The lease files the model reads *)

Line(text) == [text |-> text, pad |-> 0]

\* "1700000000 m i h c"
LineValid == Line(<<"1","7","0","0","0","0","0","0","0","0"," ","m"," ","i"," ","h"," ","c">>)
\* "+3 m i * c": same MAC and IP as LineValid, unknown hostname
LineStarHost == Line(<<"+","3"," ","m"," ","i"," ","*"," ","c">>)
\* "-5 m i *": four fields, unknown hostname, no client ID
LineFour == Line(<<"-","5"," ","m"," ","i"," ","*">>)
\* "x7 m i h c": first field is no integer
LineBadStamp == Line(<<"x","7"," ","m"," ","i"," ","h"," ","c">>)
\* "1 m": two fields
LineTwo == Line(<<"1"," ","m">>)
\* " 17  n\tj < c d ": six fields, runs of blanks, markup in the hostname
LineSix == Line(<<" ","1","7"," "," ","n","\t","j"," ","<"," ","c"," ","d"," ">>)
\* "9999999999999999999 m i h c": first field exceeds 2^63 - 1
LineRange == Line(<<"9","9","9","9","9","9","9","9","9","9","9","9","9","9","9","9","9","9","9",
                    " ","m"," ","i"," ","h"," ","c">>)
\* "17 m i h cXXXX...": a well-formed record of more than MaxScanTokenSize characters
LineLong == [text |-> <<"1","7"," ","m"," ","i"," ","h"," ","c">>, pad |-> MaxScanTokenSize]

\* "": an empty line
LineEmpty == Line(<<>>)

LineSet == {LineValid, LineStarHost, LineFour, LineBadStamp, LineTwo, LineSix,
            LineRange, LineLong, LineEmpty}

Files == UNION {[1..n -> LineSet] : n \in 0..MaxLines}

-----------------------------------------------------------------------------
(* bufio.Scanner with the default buffer and bufio.ScanLines *)

\* Scan() gives up with bufio.ErrTooLong when the buffer is full and holds no
\* complete line
TooLong(l) == Len(l.text) + l.pad >= MaxScanTokenSize

ScanFailed_Ignored(e) == FALSE

\* scanner.Err() != nil
ScanFailed(e) == e # "nil"

-----------------------------------------------------------------------------
(* CLI: func main, src lines 26-122 *)

Log(level, msg, arg) == [level |-> level, msg |-> msg, arg |-> arg]

ResolvedPath_IgnoresEnv(e) == defaultLeaseFilePath

ResolvedPath(e) == IF e = "" THEN defaultLeaseFilePath ELSE e

CliSkipFields_AtLeast(fields) == Len(fields) < 5

CliSkipFields(fields) == Len(fields) # 5

CliLease_SwappedAddr(fields, t) ==
    [ExpiryTime |-> t,
     MACAddress |-> fields[3],
     IPAddress  |-> fields[2],
     Hostname   |-> fields[4],
     ClientID   |-> fields[5]]

CliLease(fields, t) ==
    [ExpiryTime |-> t,
     MACAddress |-> fields[2],
     IPAddress  |-> fields[3],
     Hostname   |-> fields[4],
     ClientID   |-> fields[5]]

HeaderRow == [kind |-> "header",
              cells |-> <<"Expiry Time", "MAC Address", "IP Address", "Hostname", "Client ID">>]
SeparatorRow == [kind |-> "separator",
                 cells |-> <<"-----------", "-----------", "----------", "--------", "---------">>]
NoEntriesMsg == [kind |-> "message", cells |-> <<"No lease entries found or file is empty.">>]

CliRow(lease) ==
    [kind |-> "row",
     cells |-> <<FormatTime(lease.ExpiryTime, CliLayout), lease.MACAddress, lease.IPAddress,
                 lease.Hostname, lease.ClientID>>]

CliRows_Reversed(ls) == [i \in 1..Len(ls) |-> CliRow(ls[Len(ls) + 1 - i])]

CliRows(ls) == [i \in 1..Len(ls) |-> CliRow(ls[i])]

CliOutput_NoSeparator(ls) ==
    IF Len(ls) = 0 THEN <<NoEntriesMsg>> ELSE <<HeaderRow>> \o CliRows(ls)

\* what main writes to standard output once the file is read (cells before
\* tabwriter pads them)
CliOutput(ls) ==
    IF Len(ls) = 0 THEN <<NoEntriesMsg>> ELSE <<HeaderRow, SeparatorRow>> \o CliRows(ls)

CliResolvePath ==
    /\ mode = "cli" /\ pc = "start"
    /\ leaseFilePath' = ResolvedPath(env)
    /\ logs' = Append(logs, IF env = ""
                            THEN Log("Info", "not set, using default path", defaultLeaseFilePath)
                            ELSE Log("Info", "using path from environment", env))
    /\ pc' = "open"
    /\ UNCHANGED <<mode, env, file, opens, pos, lineNumber, leases, origin, skipped, err,
                   stdout, exitCode, request, resp, nreq, now>>

CliOpen ==
    /\ mode = "cli" /\ pc = "open"
    /\ opens' = opens + 1
    /\ \E ok \in BOOLEAN :
         IF ok
         THEN /\ pc' = "scan"
              /\ UNCHANGED <<err, logs, exitCode>>
         ELSE /\ err' = "open"
              /\ logs' = Append(logs, Log("Fatal", "Error opening file", leaseFilePath))
              /\ exitCode' = 1
              /\ pc' = "exited"
    /\ UNCHANGED <<mode, env, file, leaseFilePath, pos, lineNumber, leases, origin, skipped,
                   stdout, request, resp, nreq, now>>

CliScanLine ==
    /\ mode = "cli" /\ pc = "scan"
    /\ pos < Len(file)
    /\ ~TooLong(file[pos + 1])
    /\ LET fields == Fields(file[pos + 1].text)
           n      == IF CliSkipFields(fields)
                     THEN [err |-> "skip", val |-> 0]
                     ELSE ParseInt(fields[1])
       IN  /\ pos' = pos + 1
           /\ lineNumber' = lineNumber + 1
           /\ IF CliSkipFields(fields)
              THEN /\ logs' = Append(logs, Log("Warning", "Invalid number of fields",
                                               lineNumber + 1))
                   /\ skipped' = skipped + 1
                   /\ UNCHANGED <<leases, origin>>
              ELSE IF n.err # "nil"
              THEN /\ logs' = Append(logs, Log("Warning", "Error parsing timestamp",
                                               lineNumber + 1))
                   /\ skipped' = skipped + 1
                   /\ UNCHANGED <<leases, origin>>
              ELSE /\ leases' = Append(leases, CliLease(fields, UnixTime(n.val)))
                   /\ origin' = Append(origin, pos + 1)
                   /\ UNCHANGED <<logs, skipped>>
    /\ UNCHANGED <<mode, env, file, pc, leaseFilePath, opens, err, stdout, exitCode,
                   request, resp, nreq, now>>

CliScanTooLong ==
    /\ mode = "cli" /\ pc = "scan"
    /\ pos < Len(file)
    /\ TooLong(file[pos + 1])
    /\ err' = "toolong"
    /\ pc' = "check"
    /\ UNCHANGED <<mode, env, file, leaseFilePath, opens, pos, lineNumber, leases, origin,
                   skipped, logs, stdout, exitCode, request, resp, nreq, now>>

\* the read of the underlying file fails, at any point of the scan; the lines
\* delivered so far stay parsed
CliScanReadError ==
    /\ mode = "cli" /\ pc = "scan"
    /\ err' = "io"
    /\ pc' = "check"
    /\ UNCHANGED <<mode, env, file, leaseFilePath, opens, pos, lineNumber, leases, origin,
                   skipped, logs, stdout, exitCode, request, resp, nreq, now>>

CliScanEOF ==
    /\ mode = "cli" /\ pc = "scan"
    /\ pos = Len(file)
    /\ pc' = "check"
    /\ UNCHANGED <<mode, env, file, leaseFilePath, opens, pos, lineNumber, leases, origin,
                   skipped, err, logs, stdout, exitCode, request, resp, nreq, now>>

CliCheckErr ==
    /\ mode = "cli" /\ pc = "check"
    /\ IF ScanFailed(err)
       THEN /\ logs' = Append(logs, Log("Fatal", "Error reading file", leaseFilePath))
            /\ exitCode' = 1
            /\ pc' = "exited"
       ELSE /\ pc' = "render"
            /\ UNCHANGED <<logs, exitCode>>
    /\ UNCHANGED <<mode, env, file, leaseFilePath, opens, pos, lineNumber, leases, origin,
                   skipped, err, stdout, request, resp, nreq, now>>

CliRender ==
    /\ mode = "cli" /\ pc = "render"
    /\ stdout' = CliOutput(leases)
    /\ exitCode' = 0
    /\ pc' = "exited"
    /\ UNCHANGED <<mode, env, file, leaseFilePath, opens, pos, lineNumber, leases, origin,
                   skipped, err, logs, request, resp, nreq, now>>

-----------------------------------------------------------------------------
(* Service: parseLeases, leaseHandler and main, src lines 154-332 *)

Requests ==
    {[method |-> "GET",  path |-> <<"/">>],
     [method |-> "POST", path |-> <<"/">>],
     [method |-> "GET",  path |-> <<"/", "h">>],
     [method |-> "GET",  path |-> <<"/", "/", "h">>]}

NoRequest == [method |-> "", path |-> <<>>]
NoResponse == [status |-> 0, kind |-> "none"]

\* net/http cleanPath, as far as repeated slashes go
RECURSIVE CleanPath(_)
CleanPath(p) ==
    IF Len(p) < 2 THEN p
    ELSE IF p[1] = "/" /\ p[2] = "/" THEN CleanPath(Tail(p))
    ELSE <<Head(p)>> \o CleanPath(Tail(p))

\* http.HandleFunc("/", leaseHandler): the pattern "/" matches every path, and
\* the handler is registered for every method
PatternMatches(pattern, path) ==
    IF pattern = <<"/">> THEN Len(path) >= 1 /\ path[1] = "/" ELSE pattern = path

\* ServeMux: the handler a request is dispatched to
MuxHandler(req) ==
    IF req.method # "CONNECT" /\ CleanPath(req.path) # req.path THEN "redirect"
    ELSE IF PatternMatches(<<"/">>, req.path) THEN "leaseHandler"
    ELSE "notFound"

WebSkipFields(fields) == Len(fields) < 4

WebHostname(fields) == IF fields[4] = Star THEN NA ELSE fields[4]

WebClientID_NoDefault(fields) == IF Len(fields) > 4 THEN fields[5] ELSE <<>>

WebClientID(fields) == IF Len(fields) > 4 THEN fields[5] ELSE NA

WebLease(fields, t) ==
    [ExpiryTime |-> t,
     MACAddress |-> fields[2],
     IPAddress  |-> fields[3],
     Hostname   |-> WebHostname(fields),
     ClientID   |-> WebClientID(fields)]

\* parseLeases returned a non-nil error
WebParseFailed(e) == e # "nil"

\* html/template escaping of a text node
EscapeChar(c) ==
    CASE c = "<" -> <<"&", "l", "t", ";">>
      [] c = ">" -> <<"&", "g", "t", ";">>
      [] c = "&" -> <<"&", "a", "m", "p", ";">>
      [] c = "'" -> <<"&", "#", "3", "9", ";">>
      [] c = "\"" -> <<"&", "#", "3", "4", ";">>
      [] OTHER -> <<c>>

RECURSIVE HTMLEscape(_)
HTMLEscape(s) == IF s = <<>> THEN <<>> ELSE EscapeChar(Head(s)) \o HTMLEscape(Tail(s))

WebRow(lease) ==
    [kind |-> "lease",
     cells |-> <<FormatTime(lease.ExpiryTime, WebLayout), HTMLEscape(lease.MACAddress),
                 HTMLEscape(lease.IPAddress), HTMLEscape(lease.Hostname),
                 HTMLEscape(lease.ClientID)>>]

NoLeasesRow == [kind |-> "noleases", cells |-> <<"colspan=5">>]

WebRows_NoElse(ls) == [i \in 1..Len(ls) |-> WebRow(ls[i])]

\* {{range .Leases}} ... {{else}} ... {{end}}
WebRows(ls) == IF Len(ls) = 0 THEN <<NoLeasesRow>> ELSE [i \in 1..Len(ls) |-> WebRow(ls[i])]

WebDocument(ls, t) ==
    [status |-> 200, kind |-> "document", contentType |-> "text/html; charset=utf-8",
     rows |-> WebRows(ls), footerPath |-> leasesFilePath,
     footerTime |-> FormatTime(t, WebLayout)]

WebError(e, path) ==
    [status |-> 500, kind |-> "error", contentType |-> "text/plain; charset=utf-8",
     rows |-> <<>>, error |-> e, path |-> path]

\* main: register the handler, log, ListenAndServe
WebStart ==
    /\ mode = "web" /\ pc = "start"
    /\ \E ok \in BOOLEAN :
         IF ok
         THEN /\ pc' = "listen"
              /\ logs' = logs \o <<Log("Info", "starting web server", port),
                                   Log("Info", "reading data from", leasesFilePath)>>
              /\ UNCHANGED exitCode
         ELSE /\ pc' = "exited"
              /\ logs' = logs \o <<Log("Info", "starting web server", port),
                                   Log("Info", "reading data from", leasesFilePath),
                                   Log("Fatal", "could not start server", port)>>
              /\ exitCode' = 1
    /\ UNCHANGED <<mode, env, file, leaseFilePath, opens, pos, lineNumber, leases, origin,
                   skipped, err, stdout, request, resp, nreq, now>>

\* ServeMux answers a request whose path is not clean with a redirect
MuxRedirect(req) ==
    /\ mode = "web" /\ pc = "listen" /\ nreq < MaxRequests
    /\ MuxHandler(req) = "redirect"
    /\ request' = req
    /\ resp' = [status |-> 301, kind |-> "redirect", location |-> CleanPath(req.path)]
    /\ nreq' = nreq + 1
    /\ now' = now + 1
    /\ UNCHANGED <<mode, env, file, pc, leaseFilePath, opens, pos, lineNumber, leases,
                   origin, skipped, err, logs, stdout, exitCode>>

\* ServeMux calls leaseHandler, which calls parseLeases(leasesFilePath)
WebDispatch(req) ==
    /\ mode = "web" /\ pc = "listen" /\ nreq < MaxRequests
    /\ MuxHandler(req) = "leaseHandler"
    /\ request' = req
    /\ resp' = NoResponse
    /\ now' = now + 1
    /\ leaseFilePath' = leasesFilePath
    /\ opens' = 0 /\ pos' = 0 /\ skipped' = 0 /\ err' = "nil"
    /\ leases' = <<>> /\ origin' = <<>> /\ logs' = <<>>
    /\ pc' = "h_open"
    /\ UNCHANGED <<mode, env, file, lineNumber, stdout, exitCode, nreq>>

WebOpen ==
    /\ mode = "web" /\ pc = "h_open"
    /\ opens' = opens + 1
    /\ \E ok \in BOOLEAN :
         IF ok
         THEN /\ pc' = "h_scan"
              /\ UNCHANGED err
         ELSE /\ err' = "open"
              /\ pc' = "h_return"
    /\ UNCHANGED <<mode, env, file, leaseFilePath, pos, lineNumber, leases, origin, skipped,
                   logs, stdout, exitCode, request, resp, nreq, now>>

WebScanLine ==
    /\ mode = "web" /\ pc = "h_scan"
    /\ pos < Len(file)
    /\ ~TooLong(file[pos + 1])
    /\ LET fields == Fields(file[pos + 1].text)
           n      == IF WebSkipFields(fields)
                     THEN [err |-> "skip", val |-> 0]
                     ELSE ParseInt(fields[1])
       IN  /\ pos' = pos + 1
           /\ IF WebSkipFields(fields)
              THEN /\ logs' = Append(logs, Log("Warning", "line with too few fields",
                                               file[pos + 1].text))
                   /\ skipped' = skipped + 1
                   /\ UNCHANGED <<leases, origin>>
              ELSE IF n.err # "nil"
              THEN /\ logs' = Append(logs, Log("Warning", "could not parse timestamp",
                                               file[pos + 1].text))
                   /\ skipped' = skipped + 1
                   /\ UNCHANGED <<leases, origin>>
              ELSE /\ leases' = Append(leases, WebLease(fields, UnixTime(n.val)))
                   /\ origin' = Append(origin, pos + 1)
                   /\ UNCHANGED <<logs, skipped>>
    /\ UNCHANGED <<mode, env, file, pc, leaseFilePath, opens, lineNumber, err, stdout,
                   exitCode, request, resp, nreq, now>>

WebScanTooLong ==
    /\ mode = "web" /\ pc = "h_scan"
    /\ pos < Len(file)
    /\ TooLong(file[pos + 1])
    /\ err' = "toolong"
    /\ pc' = "h_return"
    /\ UNCHANGED <<mode, env, file, leaseFilePath, opens, pos, lineNumber, leases, origin,
                   skipped, logs, stdout, exitCode, request, resp, nreq, now>>

WebScanReadError ==
    /\ mode = "web" /\ pc = "h_scan"
    /\ err' = "io"
    /\ pc' = "h_return"
    /\ UNCHANGED <<mode, env, file, leaseFilePath, opens, pos, lineNumber, leases, origin,
                   skipped, logs, stdout, exitCode, request, resp, nreq, now>>

WebScanEOF ==
    /\ mode = "web" /\ pc = "h_scan"
    /\ pos = Len(file)
    /\ pc' = "h_return"
    /\ UNCHANGED <<mode, env, file, leaseFilePath, opens, pos, lineNumber, leases, origin,
                   skipped, err, logs, stdout, exitCode, request, resp, nreq, now>>

\* parseLeases returns (nil, err); leaseHandler logs and answers 500
WebRespondError ==
    /\ mode = "web" /\ pc = "h_return"
    /\ WebParseFailed(err)
    /\ leases' = <<>> /\ origin' = <<>>
    /\ logs' = Append(logs, Log("Error", "error parsing leases file", leaseFilePath))
    /\ resp' = WebError(err, leaseFilePath)
    /\ nreq' = nreq + 1
    /\ pc' = "listen"
    /\ UNCHANGED <<mode, env, file, leaseFilePath, opens, pos, lineNumber, skipped, err,
                   stdout, exitCode, request, now>>

\* parseLeases returns (leases, nil); leaseHandler executes the template
WebRespondOK ==
    /\ mode = "web" /\ pc = "h_return"
    /\ ~WebParseFailed(err)
    /\ resp' = WebDocument(leases, UnixTime(now))
    /\ nreq' = nreq + 1
    /\ pc' = "listen"
    /\ UNCHANGED <<mode, env, file, leaseFilePath, opens, pos, lineNumber, leases, origin,
                   skipped, err, logs, stdout, exitCode, request, now>>

-----------------------------------------------------------------------------

Init ==
    /\ mode \in {"cli", "web"}
    /\ env \in EnvValues
    /\ file \in Files
    /\ pc = "start"
    /\ leaseFilePath = ""
    /\ opens = 0 /\ pos = 0 /\ lineNumber = 0 /\ skipped = 0
    /\ leases = <<>> /\ origin = <<>>
    /\ err = "nil"
    /\ logs = <<>> /\ stdout = <<>>
    /\ exitCode = -1
    /\ request = NoRequest /\ resp = NoResponse
    /\ nreq = 0 /\ now = 0

Next ==
    \/ CliResolvePath
    \/ CliOpen
    \/ CliScanLine
    \/ CliScanTooLong
    \/ CliScanReadError
    \/ CliScanEOF
    \/ CliCheckErr
    \/ CliRender
    \/ WebStart
    \/ \E req \in Requests : MuxRedirect(req)
    \/ \E req \in Requests : WebDispatch(req)
    \/ WebOpen
    \/ WebScanLine
    \/ WebScanTooLong
    \/ WebScanReadError
    \/ WebScanEOF
    \/ WebRespondError
    \/ WebRespondOK

Spec == Init /\ [][Next]_vars

-----------------------------------------------------------------------------
(* Properties *)

\* the line the scanner hands to the loop body in this step, and its fields
LineRead == file[pos + 1]
FieldsRead == Fields(LineRead.text)
ReadsLine == pos' = pos + 1

\* a line the variant at hand rejects: strict (cli) wants exactly 5 fields,
\* lenient (web) at least 4; both want a base-10 int64 first
Malformed(f) ==
    \/ IF mode = "cli" THEN Len(f) # 5 ELSE Len(f) < 4
    \/ ParseInt(f[1]).err # "nil"

\* the parse ran to the end of the file without error
CompleteParse ==
    /\ err = "nil"
    /\ \/ mode = "cli" /\ pc \in {"check", "render", "exited"}
       \/ mode = "web" /\ pc = "h_return"
       \/ mode = "web" /\ pc = "listen" /\ resp.kind = "document"

Warnings == {i \in 1..Len(logs) : logs[i].level = "Warning"}

\* C1: a line of exactly 5 fields whose first field parses as a base-10 int64,
\* once handed to the loop body, appends exactly one record: fields 2..5 of the
\* line unchanged (the service writes N/A for the hostname *), the expiry the
\* time decoded from field 1 as seconds since the epoch (1700000000 for
\* "1700000000", 3 for "+3").
C1_WellFormedLineAppended ==
    [][ (ReadsLine /\ Len(FieldsRead) = 5 /\ ParseInt(FieldsRead[1]).err = "nil")
        => /\ leases' = Append(leases,
                  [ExpiryTime |-> [sec |-> ParseInt(FieldsRead[1]).val, nsec |-> 0],
                   MACAddress |-> FieldsRead[2],
                   IPAddress  |-> FieldsRead[3],
                   Hostname   |-> IF mode = "web" /\ FieldsRead[4] = <<"*">>
                                  THEN <<"N", "/", "A">> ELSE FieldsRead[4],
                   ClientID   |-> FieldsRead[5]])
           /\ LineRead = LineValid
                => leases'[Len(leases')] =
                     [ExpiryTime |-> [sec |-> 1700000000, nsec |-> 0], MACAddress |-> <<"m">>,
                      IPAddress |-> <<"i">>, Hostname |-> <<"h">>, ClientID |-> <<"c">>]
           /\ LineRead = LineStarHost => leases'[Len(leases')].ExpiryTime.sec = 3
      ]_vars

C1_Witness ==
    /\ mode = "web"
    /\ Len(leases) = 2
    /\ file[origin[1]] = LineValid /\ leases[1].Hostname = <<"h">>
    /\ file[origin[2]] = LineStarHost /\ leases[2].Hostname = NA
    /\ leases[2].ClientID = <<"c">>

\* C2: a malformed line handed to the loop body adds no record, logs exactly
\* one warning, leaves the parse running without error; while no error has
\* occurred records + skipped lines = lines read, one warning per skipped
\* line, and a complete parse has read every line of the file.
C2_MalformedLineSkipped ==
    /\ [](err = "nil" => /\ Len(leases) + skipped = pos
                         /\ Cardinality(Warnings) = skipped)
    /\ [](CompleteParse => pos = Len(file))
    /\ [][ (ReadsLine /\ Malformed(FieldsRead))
           => /\ leases' = leases
              /\ Len(logs') = Len(logs) + 1
              /\ logs'[Len(logs')].level = "Warning"
              /\ skipped' = skipped + 1
              /\ pc' = pc
              /\ err' = "nil"
         ]_vars

C2_Witness ==
    /\ CompleteParse
    /\ Len(file) = 2
    /\ Len(Fields(file[1].text)) = 2
    /\ skipped = 1
    /\ origin = <<2>>

\* C3: records are in the order of the lines they come from, each from one
\* valid line of its own and carrying that line's MAC and IP; a complete parse
\* holds one record per valid line, also when lines share MAC and IP; the
\* rows each renderer emits are the records in that order.
C3_OrderPreserved ==
    /\ Len(origin) = Len(leases)
    /\ \A i \in 1..Len(origin) :
         /\ origin[i] \in 1..pos
         /\ ~Malformed(Fields(file[origin[i]].text))
         /\ leases[i].MACAddress = Fields(file[origin[i]].text)[2]
         /\ leases[i].IPAddress = Fields(file[origin[i]].text)[3]
         /\ \A j \in 1..Len(origin) : i < j => origin[i] < origin[j]
    /\ CompleteParse =>
         \A k \in 1..Len(file) :
            ~Malformed(Fields(file[k].text)) => \E i \in 1..Len(origin) : origin[i] = k
    /\ (mode = "cli" /\ pc = "exited" /\ exitCode = 0 /\ Len(leases) > 0) =>
         /\ Len(stdout) = Len(leases) + 2
         /\ \A i \in 1..Len(leases) :
              /\ stdout[i + 2].kind = "row"
              /\ stdout[i + 2].cells =
                   <<[layout |-> CliLayout, time |-> leases[i].ExpiryTime],
                     leases[i].MACAddress, leases[i].IPAddress, leases[i].Hostname,
                     leases[i].ClientID>>
    /\ (mode = "web" /\ resp.kind = "document" /\ Len(leases) > 0) =>
         /\ Len(resp.rows) = Len(leases)
         /\ \A i \in 1..Len(leases) :
              /\ resp.rows[i].kind = "lease"
              /\ resp.rows[i].cells =
                   <<[layout |-> WebLayout, time |-> leases[i].ExpiryTime],
                     HTMLEscape(leases[i].MACAddress), HTMLEscape(leases[i].IPAddress),
                     HTMLEscape(leases[i].Hostname), HTMLEscape(leases[i].ClientID)>>

C3_Witness ==
    /\ mode = "cli" /\ pc = "exited"
    /\ Len(leases) = 2 /\ Len(stdout) = 4
    /\ leases[1].MACAddress = leases[2].MACAddress
    /\ leases[1].IPAddress = leases[2].IPAddress
    /\ leases[1].Hostname # leases[2].Hostname

\* C4: when the file cannot be opened or reading it fails, the cli exits
\* non-zero with a fatal log line naming the path and nothing on standard
\* output (also with records already parsed); the service answers 500 with
\* the error and the path and no table rows; the file is opened once.
C4_FailureSurfaced ==
    /\ (mode = "cli" /\ err # "nil") =>
         /\ stdout = <<>>
         /\ opens = 1
         /\ pc = "exited" =>
              /\ exitCode = 1
              /\ logs[Len(logs)].level = "Fatal"
              /\ logs[Len(logs)].arg = leaseFilePath
              /\ leaseFilePath = IF env = "" THEN defaultLeaseFilePath ELSE env
    /\ (mode = "web" /\ err # "nil") =>
         /\ opens = 1
         /\ (pc = "listen" /\ resp.kind # "redirect") =>
              /\ resp.kind = "error"
              /\ resp.status = 500
              /\ resp.error = err
              /\ resp.path = leasesFilePath
              /\ resp.rows = <<>>
              /\ logs[Len(logs)].level = "Error"

C4_Witness ==
    /\ mode = "cli" /\ pc = "exited"
    /\ err = "io"
    /\ Len(leases) > 0
    /\ exitCode = 1

\* C5: a file read without error that yields no record is no error: the cli
\* prints only its "no entries" message and exits 0, the service answers 200
\* with an HTML document whose table body is the one "no active leases" row.
C5_EmptyIsNotAnError ==
    /\ (mode = "cli" /\ pc = "exited" /\ err = "nil" /\ Len(leases) = 0) =>
         /\ exitCode = 0
         /\ Len(stdout) = 1
         /\ stdout[1].kind = "message"
    /\ (mode = "web" /\ pc = "listen" /\ opens = 1 /\ err = "nil" /\ Len(leases) = 0
          /\ resp.kind # "redirect") =>
         /\ resp.kind = "document"
         /\ resp.status = 200
         /\ resp.contentType = "text/html; charset=utf-8"
         /\ Len(resp.rows) = 1
         /\ resp.rows[1].kind = "noleases"

C5_Witness ==
    /\ mode = "web" /\ pc = "listen"
    /\ Len(file) = 2 /\ skipped = 2
    /\ resp.kind = "document"
    /\ resp.rows[1].kind = "noleases"

\* C6 as stated: in the cli and in the service alike, the path opened is the
\* value of DNSMASQ_LEASES when that is non-empty and the default otherwise.
C6_EnvOverrideEverywhere ==
    opens > 0 => leaseFilePath = IF env # "" THEN env ELSE defaultLeaseFilePath

\* C6 amended: the cli opens the value of DNSMASQ_LEASES when that is non-empty
\* and the default path otherwise; the service opens its fixed path whatever
\* the environment holds.
C6_EnvOverrideCliOnly ==
    opens > 0 =>
        IF mode = "cli"
        THEN leaseFilePath = IF env # "" THEN env ELSE "/var/lib/misc/dnsmasq.leases"
        ELSE leaseFilePath = "/var/lib/misc/dnsmasq.leases"

C6_Witness ==
    /\ mode = "cli" /\ opens = 1
    /\ env = OverridePath /\ leaseFilePath = OverridePath

\* C7 as stated: every cli run that reads the file without error writes the
\* header row and the separator row, whether or not a record was parsed.
C7_HeaderAlways ==
    (mode = "cli" /\ pc = "exited" /\ err = "nil") =>
        /\ Len(stdout) >= 2
        /\ stdout[1].kind = "header"
        /\ stdout[2].kind = "separator"

\* C7 amended: a cli run that reads the file without error writes the header
\* row and the separator row, once and first, exactly when at least one record
\* was parsed; with no record it writes the "no entries" message and neither.
C7_HeaderIffRecords ==
    (mode = "cli" /\ pc = "exited" /\ err = "nil") =>
        IF Len(leases) > 0
        THEN /\ Len(stdout) >= 2
             /\ stdout[1].kind = "header"
             /\ stdout[2].kind = "separator"
             /\ \A i \in 3..Len(stdout) : stdout[i].kind = "row"
        ELSE /\ Len(stdout) = 1
             /\ stdout[1].kind = "message"

C7_Witness ==
    /\ mode = "cli" /\ pc = "exited" /\ err = "nil"
    /\ Len(leases) > 0
    /\ stdout[1].kind = "header"

\* C8 as stated: the lease document is served only for a GET of the path "/".
C8_OnlyGetRoot ==
    resp.kind = "document" => request.method = "GET" /\ request.path = <<"/">>

IsFourStar(l) ==
    /\ ~TooLong(l)
    /\ Len(Fields(l.text)) = 4
    /\ ParseInt(Fields(l.text)[1]).err = "nil"
    /\ Fields(l.text)[4] = <<"*">>

RecordsOf(k) == {i \in 1..Len(origin) : origin[i] = k}

\* C9 as stated: in either front end, a line read of 4 fields (timestamp, MAC,
\* IP, hostname *) yields exactly one record, hostname and client ID N/A.
C9_FourFieldsEverywhere ==
    err = "nil" =>
        \A k \in 1..pos :
            IsFourStar(file[k]) =>
                /\ Cardinality(RecordsOf(k)) = 1
                /\ \A i \in RecordsOf(k) :
                     leases[i].Hostname = <<"N", "/", "A">>
                       /\ leases[i].ClientID = <<"N", "/", "A">>

\* C9 amended: in the service such a line yields exactly one record, hostname
\* and client ID N/A; the cli skips it with a warning and yields no record.
C9_FourFieldsServiceOnly ==
    err = "nil" =>
        \A k \in 1..pos :
            IsFourStar(file[k]) =>
                IF mode = "web"
                THEN /\ Cardinality(RecordsOf(k)) = 1
                     /\ \A i \in RecordsOf(k) :
                          leases[i].Hostname = <<"N", "/", "A">>
                            /\ leases[i].ClientID = <<"N", "/", "A">>
                ELSE /\ RecordsOf(k) = {}
                     /\ \E w \in Warnings : logs[w].arg = k

C9_Witness ==
    /\ mode = "web" /\ err = "nil"
    /\ \E i \in 1..Len(leases) :
         /\ file[origin[i]] = LineFour
         /\ leases[i].Hostname = NA /\ leases[i].ClientID = NA

\* C10 as stated: only a failure to open or read the file makes the cli exit
\* non-zero or parseLeases return an error, never a line's content or length;
\* without such a failure every line of the file is read.
C10_OnlyIOAborts ==
    /\ (mode = "cli" /\ pc = "exited" /\ exitCode # 0) => err \in {"open", "io"}
    /\ (mode = "web" /\ resp.kind = "error") => resp.error \in {"open", "io"}
    /\ ((mode = "cli" /\ pc \in {"check", "render", "exited"}) \/ (mode = "web" /\ pc = "h_return"))
         => (err \in {"open", "io"} \/ pos = Len(file))

====
